---- MODULE Spec2Model ----
(***************************************************************************)
(* Rolling crime-statistics store (src/crime_stats_db.py, CrimeStatsDB),   *)
(* the anchor scorer (src/crime_spatial.py, CrimeSpatialAnalyzer) and the  *)
(* rate computations (src/crime_analysis.py, src/crime_visualization.py).  *)
(*                                                                         *)
(* Representation                                                          *)
(*   - A Timestamp is its proleptic Gregorian ordinal (days, as Python's   *)
(*     date.toordinal); a date written as text is the tuple <<y, m, d>>.   *)
(*   - Coordinates are integers in units of 0.01 degree.                   *)
(*   - Weights, counts and scores are fixed-point integers: a weight       *)
(*     1/(d^2 + eps) is kept in units of 1/(WScale*eps); eps is EpsInv-th  *)
(*     of a squared coordinate unit (coarsened from 1e-10 deg^2 so that    *)
(*     the values fit TLC's 32-bit integers); a risk score r in [0,1] is   *)
(*     the integer r*RScale.                                               *)
(*   - A DataFrame is a sequence of records (rows).                        *)
(***************************************************************************)
EXTENDS Integers, Sequences, FiniteSets, TLC

VARIABLES
    now,            \* datetime.now(): <<year, month, day>>
    file,           \* contents of data/crime_stats.csv, or NoFile
    alive,          \* a CrimeStatsDB instance has been constructed
    grid_size,      \* self.grid_size
    anchor_points,  \* self.anchor_points: sequence of <<lat, lon>>
    stats_df,       \* self.stats_df: sequence of rows
    crime_data,     \* the caller's observation DataFrame (last batch passed)
    nCalls,         \* number of calls of the store's methods so far
    last,           \* outcome of the last operation
    calls,          \* per thread: the position and locals of its update_stats call
    interleaved,    \* two update_stats calls have been in progress at once
    analyzer,       \* the CrimeSpatialAnalyzer instance: raw_data, grid_size,
                    \* anchor_points, anchor_scores
    raw_data        \* CrimeAnalyzer.raw_data: the observations, each with its city

vars == <<now, file, alive, grid_size, anchor_points, stats_df, crime_data,
          nCalls, last, calls, interleaved, analyzer, raw_data>>

\* the variables outside a single-threaded use of the store
others == <<calls, interleaved, analyzer, raw_data>>

\* the variables of the store
storeVars == <<file, alive, grid_size, anchor_points, stats_df, crime_data,
               nCalls, calls, interleaved>>

\* ------------------------------------------------------------------ bounds
MaxCalls == 2

\* fixed-point resolutions
WScale == 100000
RScale == 1000
NScale == 1000

\* ------------------------------------------------------- program constants
EpsInv == 10
lat_min == 3264
lat_max == 3304
lon_min == -9695
lon_max == -9649
WindowMonths == 12
DaysBack == 365

NoFile == [exists |-> FALSE, rows |-> <<>>]
None == [null |-> TRUE]

\* ------------------------------------------------------------- calendar
IsLeap(y) == (y % 4 = 0 /\ y % 100 # 0) \/ y % 400 = 0

DaysInMonth(y, m) ==
    IF m = 2 THEN (IF IsLeap(y) THEN 29 ELSE 28)
    ELSE IF m \in {4, 6, 9, 11} THEN 30 ELSE 31

DaysBeforeYear(y) ==
    ((y - 1) * 365) + ((y - 1) \div 4) - ((y - 1) \div 100) + ((y - 1) \div 400)

\* days of the year before the first day of month m
DaysBeforeMonth(y, m) ==
    <<0, 31, 59, 90, 120, 151, 181, 212, 243, 273, 304, 334>>[m]
    + (IF m > 2 /\ IsLeap(y) THEN 1 ELSE 0)

\* date.toordinal()
ToOrdinal(ymd) == DaysBeforeYear(ymd[1]) + DaysBeforeMonth(ymd[1], ymd[2]) + ymd[3]

\* date.fromordinal()
FromOrdinal(n) ==
    LET n400 == (n - 1) \div 146097
        r400 == (n - 1) % 146097
        n100 == r400 \div 36524
        r100 == r400 % 36524
        n4   == r100 \div 1461
        r4   == r100 % 1461
        n1   == r4 \div 365
        r    == r4 % 365
        y    == (n400 * 400) + (n100 * 100) + (n4 * 4) + n1 + 1
        m    == CHOOSE mm \in 1..12 :
                    DaysBeforeMonth(y, mm) <= r
                    /\ r < DaysBeforeMonth(y, mm) + DaysInMonth(y, mm)
    IN  IF n1 = 4 \/ n100 = 4 THEN <<y - 1, 12, 31>>
        ELSE <<y, m, r - DaysBeforeMonth(y, m) + 1>>

\* ts.replace(day=1)
ReplaceDay1(ts) == LET d == FromOrdinal(ts) IN ToOrdinal(<<d[1], d[2], 1>>)

\* ts - pd.DateOffset(months=k): month arithmetic, day clipped to the month's end
SubMonths(ts, k) ==
    LET d  == FromOrdinal(ts)
        mi == (d[1] * 12) + (d[2] - 1) - k
        y  == mi \div 12
        m  == (mi % 12) + 1
        dd == IF d[3] > DaysInMonth(y, m) THEN DaysInMonth(y, m) ELSE d[3]
    IN  ToOrdinal(<<y, m, dd>>)

\* the first-of-month Timestamp following a first-of-month Timestamp
NextMonthStart(ts) ==
    LET d == FromOrdinal(ts) IN ts + DaysInMonth(d[1], d[2])

\* pd.date_range(start, end, freq='MS'): the month starts in [start, end]
RECURSIVE MonthStartsFrom(_, _)
MonthStartsFrom(ts, end) ==
    IF ts > end THEN <<>> ELSE <<ts>> \o MonthStartsFrom(NextMonthStart(ts), end)

date_range(start, end) ==
    LET d     == FromOrdinal(start)
        first == IF d[3] = 1 THEN start
                 ELSE ToOrdinal(<<d[1], d[2], 1>>) + DaysInMonth(d[1], d[2])
    IN  MonthStartsFrom(first, end)

\* ------------------------------------------------------------ sequences
RECURSIVE SeqSum(_)
SeqSum(s) == IF s = <<>> THEN 0 ELSE Head(s) + SeqSum(Tail(s))

Range(s) == {s[i] : i \in DOMAIN s}

\* s[-k:]
LastK(s, k) == IF Len(s) <= k THEN s ELSE SubSeq(s, Len(s) - k + 1, Len(s))

\* order of first appearance (Series.unique / drop_duplicates)
Unique(s) ==
    LET first == {i \in DOMAIN s : \A j \in 1..(i - 1) : s[j] # s[i]}
    IN  [k \in 1..Cardinality(first) |->
            s[CHOOSE i \in first : Cardinality({j \in first : j <= i}) = k]]

SetMax(S) == CHOOSE x \in S : \A y \in S : y <= x
SetMin(S) == CHOOSE x \in S : \A y \in S : x <= y

\* ------------------------------------------------------------ anchor mesh
\* np.linspace(lo, hi, n)
linspace(lo, hi, n) ==
    IF n = 1 THEN <<lo>>
    ELSE [i \in 1..n |-> lo + (((i - 1) * (hi - lo)) \div (n - 1))]

\* np.column_stack((lat_grid.ravel(), lon_grid.ravel())) of np.meshgrid(lat, lon)
MeshPoints(g) ==
    LET lat_range == linspace(lat_min, lat_max, g)
        lon_range == linspace(lon_min, lon_max, g)
    IN  [k \in 1..(g * g) |->
            <<lat_range[((k - 1) % g) + 1], lon_range[((k - 1) \div g) + 1]>>]

ZeroRow(p, month) ==
    [latitude |-> p[1], longitude |-> p[2], month |-> month,
     risk_score |-> 0, crime_count |-> 0, violent_count |-> 0,
     property_count |-> 0, other_count |-> 0]

\* variant: the first anchor is skipped (off-by-one in the anchor loop)
ZeroRows_SkipFirst(points, months) ==
    LET nm == Len(months)
    IN  [k \in 1..((Len(points) - 1) * nm) |->
            ZeroRow(points[((k - 1) \div nm) + 2], months[((k - 1) % nm) + 1])]

\* for each point, for each month: one zeroed row
ZeroRows(points, months) ==
    LET nm == Len(months)
    IN  [k \in 1..(Len(points) * nm) |->
            ZeroRow(points[((k - 1) \div nm) + 1], months[((k - 1) % nm) + 1])]

Months(df) == {df[i].month : i \in DOMAIN df}

\* variant: the range from start_date is used as it is, without the cut to 12
EmptyDbMonths_NoTrim(today) ==
    date_range(ReplaceDay1(ToOrdinal(<<today[1], today[2], 1>>) - DaysBack),
               ToOrdinal(<<today[1], today[2], 1>>))

\* the months of _create_empty_db: trailing 12 month starts ending at the current month
EmptyDbMonths(today) ==
    LET end_date   == ToOrdinal(<<today[1], today[2], 1>>)
        start_date == ReplaceDay1(end_date - DaysBack)
        months     == date_range(start_date, end_date)
    IN  IF Len(months) > WindowMonths THEN LastK(months, WindowMonths)
        ELSE months

\* ------------------------------------------------------------ persistence
RECURSIVE Digits(_)
Digits(n) == IF n < 10 THEN <<n>> ELSE Append(Digits(n \div 10), n % 10)

RECURSIVE FromDigits(_)
FromDigits(ds) ==
    IF Len(ds) = 1 THEN ds[1]
    ELSE (FromDigits(SubSeq(ds, 1, Len(ds) - 1)) * 10) + ds[Len(ds)]

\* a number as CSV text
FormatNum(n) == [neg |-> n < 0, digits |-> Digits(IF n < 0 THEN 0 - n ELSE n)]
ParseNum(t) == IF t.neg THEN 0 - FromDigits(t.digits) ELSE FromDigits(t.digits)

\* DataFrame.to_csv(index=False): every field as text, the month as 'YYYY-MM-DD'
FormatRow(r) ==
    [latitude |-> FormatNum(r.latitude), longitude |-> FormatNum(r.longitude),
     month |-> FromOrdinal(r.month),
     risk_score |-> FormatNum(r.risk_score),
     crime_count |-> FormatNum(r.crime_count),
     violent_count |-> FormatNum(r.violent_count),
     property_count |-> FormatNum(r.property_count),
     other_count |-> FormatNum(r.other_count)]

to_csv(df) == [i \in DOMAIN df |-> FormatRow(df[i])]

\* pd.read_csv: numeric columns parsed, the month column left as text
ReadRow(t) ==
    [latitude |-> ParseNum(t.latitude), longitude |-> ParseNum(t.longitude),
     month |-> t.month,
     risk_score |-> ParseNum(t.risk_score),
     crime_count |-> ParseNum(t.crime_count),
     violent_count |-> ParseNum(t.violent_count),
     property_count |-> ParseNum(t.property_count),
     other_count |-> ParseNum(t.other_count)]

\* variant: the first data row is taken for the header
read_csv_SkipFirst(f) == [i \in 1..(Len(f) - 1) |-> ReadRow(f[i + 1])]

read_csv(f) == [i \in DOMAIN f |-> ReadRow(f[i])]

\* stats_df['month'] = pd.to_datetime(stats_df['month'])
MonthToDatetime(df) == [i \in DOMAIN df |-> [df[i] EXCEPT !.month = ToOrdinal(@)]]

\* a 'YYYY-MM-DD' text that names a day of the calendar
IsDate(t) == t[2] \in 1..12 /\ t[3] \in 1..DaysInMonth(t[1], t[2])

\* _initialize_db, branch "file exists": the table and the anchors, or the
\* exception of pd.to_datetime on a month that is no date
LoadDb(f) ==
    LET raw == read_csv(f)
    IN  IF \E i \in DOMAIN raw : ~IsDate(raw[i].month)
        THEN [raised |-> TRUE, stats_df |-> <<>>, anchor_points |-> <<>>]
        ELSE LET df == MonthToDatetime(raw)
             IN  [raised |-> FALSE, stats_df |-> df,
                  anchor_points |->
                      Unique([i \in DOMAIN df |-> <<df[i].latitude, df[i].longitude>>])]

\* _create_empty_db
CreateEmptyDb(g, today) ==
    LET points == MeshPoints(g)
    IN  [stats_df |-> ZeroRows(points, EmptyDbMonths(today)),
         anchor_points |-> points]

\* ------------------------------------------------------------ observations
\* pd.to_datetime on a column that holds text or Timestamps
to_datetime(x) == IF "ts" \in DOMAIN x THEN x.ts ELSE ToOrdinal(x.text)

\* dt.to_period('M').astype(str) then pd.to_datetime: 'YYYY-MM' parsed as its first day
MonthBin(ts) == LET d == FromOrdinal(ts) IN ToOrdinal(<<d[1], d[2], 1>>)

\* lines 109-114: the caller's DataFrame after the in-place column assignments
WithMonth(batch) ==
    [i \in DOMAIN batch |->
        [id |-> batch[i].id,
         latitude |-> batch[i].latitude, longitude |-> batch[i].longitude,
         date_of_occurrence |-> [ts |-> to_datetime(batch[i].date_of_occurrence)],
         nibrs_crime_category |-> batch[i].nibrs_crime_category,
         month |-> MonthBin(to_datetime(batch[i].date_of_occurrence))]]

\* variant: a crime category outside the two lists is given no category
Category_NoDefault(x) ==
    IF x \in {"ASSAULT", "HOMICIDE", "ROBBERY"} THEN "violent"
    ELSE IF x \in {"THEFT", "BURGLARY", "AUTO THEFT"} THEN "property"
    ELSE "unclassified"

\* lines 122-126
Category(x) ==
    IF x \in {"ASSAULT", "HOMICIDE", "ROBBERY"} THEN "violent"
    ELSE IF x \in {"THEFT", "BURGLARY", "AUTO THEFT"} THEN "property"
    ELSE "other"

\* squared Euclidean distance (cdist, then ** 2)
Dist2(p, lat, lon) ==
    ((p[1] - lat) * (p[1] - lat)) + ((p[2] - lon) * (p[2] - lon))

\* 1 / (distances ** 2 + 1e-10)
Weight(d2) == WScale \div ((d2 * EpsInv) + 1)

\* sum of the weights from anchor p to the observations of obs
WeightSum(p, obs) ==
    SeqSum([i \in DOMAIN obs |-> Weight(Dist2(p, obs[i].latitude, obs[i].longitude))])

\* variant: nothing is reset, the new rows are appended to the old table
ResetWindow_KeepAll(df, lo, hi) == df

\* variant: the rows outside the window are dropped and the rows inside it kept
ResetWindow_WindowOnly(df, lo, hi) ==
    SelectSeq(df, LAMBDA r : r.month >= lo /\ r.month <= hi)

\* lines 129-132: the rows that survive the reset
ResetWindow(df, lo, hi) ==
    SelectSeq(df, LAMBDA r : r.month < lo \/ r.month > hi)

\* lines 165-184 for one row: the counts of its anchor for its month
OverwriteRow(r, anchors, obs, unique_months) ==
    IF r.month \in Range(unique_months)
       /\ <<r.latitude, r.longitude>> \in Range(anchors)
    THEN LET p  == <<r.latitude, r.longitude>>
             mc == SelectSeq(obs, LAMBDA o : o.month = r.month)
             OfCat(c) == SelectSeq(mc, LAMBDA o : Category(o.nibrs_crime_category) = c)
         IN  [r EXCEPT !.crime_count    = WeightSum(p, mc),
                       !.violent_count  = WeightSum(p, OfCat("violent")),
                       !.property_count = WeightSum(p, OfCat("property")),
                       !.other_count    = WeightSum(p, OfCat("other"))]
    ELSE r

\* month_counts.min() and .max() for each month of the batch
MonthRange(df, unique_months) ==
    [m \in Range(unique_months) |->
        LET counts == {df[i].crime_count : i \in {j \in DOMAIN df : df[j].month = m}}
        IN  IF counts = {} THEN [lo |-> 0, hi |-> 0]    \* nan > nan is False
            ELSE [lo |-> SetMin(counts), hi |-> SetMax(counts)]]

\* variant: the minimum is not subtracted from the count
NormalizeRow_NoShift(r, range) ==
    IF r.month \in DOMAIN range /\ range[r.month].hi > range[r.month].lo
    THEN [r EXCEPT !.risk_score =
             (r.crime_count * RScale) \div (range[r.month].hi - range[r.month].lo)]
    ELSE r

\* lines 187-194 for one row
NormalizeRow(r, range) ==
    IF r.month \in DOMAIN range /\ range[r.month].hi > range[r.month].lo
    THEN [r EXCEPT !.risk_score =
             ((r.crime_count - range[r.month].lo) * RScale)
                 \div (range[r.month].hi - range[r.month].lo)]
    ELSE r

\* lines 152-194: the per-month overwrite and normalisation of the extended table
ProcessMonths(extended, anchors, obs) ==
    LET unique_months == Unique([i \in DOMAIN obs |-> obs[i].month])
    IN  CHOOSE out \in
            {[i \in DOMAIN counted |-> NormalizeRow(counted[i], range)] :
                <<counted, range>> \in
                    {<<c, MonthRange(c, unique_months)>> :
                        c \in {[i \in DOMAIN extended |->
                                  OverwriteRow(extended[i], anchors, obs, unique_months)]}}}
            : TRUE

\* update_stats up to the closing assertion: the new self.stats_df, the caller's
\* DataFrame as the call leaves it, and whether the assertion raises
update_stats(df, anchors, batch) ==
    LET cd            == WithMonth(batch)
        latest_month  == SetMax({cd[i].month : i \in DOMAIN cd})
        twelve_months_ago == ReplaceDay1(SubMonths(latest_month, WindowMonths - 1))
        obs           == SelectSeq(cd, LAMBDA o : o.month >= twelve_months_ago)
        kept          == ResetWindow(df, twelve_months_ago, latest_month)
        months        == date_range(twelve_months_ago, latest_month)
        extended      == kept \o ZeroRows(anchors, months)
    IN  CHOOSE u \in
            {[stats_df   |-> normalized,
              crime_data |-> cd,
              raised     |-> Cardinality(Months(normalized)) > WindowMonths] :
                normalized \in {ProcessMonths(extended, anchors, obs)}}
            : TRUE

\* ------------------------------------------------------------ queries
\* the k-th smallest element of a set of numbers, for k in 1..Cardinality(S)
SortSet(S) ==
    [k \in 1..Cardinality(S) |->
        CHOOSE x \in S : Cardinality({y \in S : y <= x}) = k]

\* variant: the comparison with the radius is strict
Nearby_Strict(anchors, lat, lon, radius) ==
    {i \in DOMAIN anchors :
        radius >= 0 /\ Dist2(anchors[i], lat, lon) < radius * radius}

\* lines 221-225: the indices of the anchors with sqrt(d2) <= radius
Nearby(anchors, lat, lon, radius) ==
    {i \in DOMAIN anchors :
        radius >= 0 /\ Dist2(anchors[i], lat, lon) <= radius * radius}

\* lines 231-232: the normalised weight of each nearby anchor
QueryWeights(anchors, near, lat, lon) ==
    LET w   == [i \in near |-> Weight(Dist2(anchors[i], lat, lon))]
        ix  == SortSet(near)
        sum == SeqSum([k \in DOMAIN ix |-> w[ix[k]]])
    IN  [i \in near |-> (w[i] * NScale) \div sum]

\* lines 238-249: the rows of the nearby anchors, each with its anchor's weight
WeightedRows(df, anchors, near, weights) ==
    LET WeightOf(r) ==
            SeqSum([k \in DOMAIN anchors |->
                IF k \in near /\ anchors[k] = <<r.latitude, r.longitude>>
                THEN weights[k] ELSE 0])
        rows == SelectSeq(df, LAMBDA r :
                    \E k \in near : anchors[k] = <<r.latitude, r.longitude>>)
    IN  [i \in DOMAIN rows |-> [row |-> rows[i], weight |-> WeightOf(rows[i])]]

\* np.average(values, weights=weights)
Average(values, weights) ==
    SeqSum([i \in DOMAIN values |-> values[i] * weights[i]]) \div SeqSum(weights)

\* lines 254-264: the record of one month, from the weighted rows of that month
MonthRecord(month, md) ==
    LET month_weights == [i \in DOMAIN md |-> md[i].weight]
    IN  [month          |-> month,
         risk_score     |-> Average([i \in DOMAIN md |-> md[i].row.risk_score], month_weights),
         crime_count    |-> Average([i \in DOMAIN md |-> md[i].row.crime_count], month_weights),
         violent_count  |-> Average([i \in DOMAIN md |-> md[i].row.violent_count], month_weights),
         property_count |-> Average([i \in DOMAIN md |-> md[i].row.property_count], month_weights),
         other_count    |-> Average([i \in DOMAIN md |-> md[i].row.other_count], month_weights)]

\* variant: the records stay in the order in which the months first appear
MonthlyStats_FirstSeen(wrows) ==
    LET months == Unique([i \in DOMAIN wrows |-> wrows[i].row.month])
    IN  [k \in DOMAIN months |->
            MonthRecord(months[k], SelectSeq(wrows, LAMBDA x : x.row.month = months[k]))]

\* lines 252-266: one record per month, sorted by month
MonthlyStats(wrows) ==
    LET months == SortSet({wrows[i].row.month : i \in DOMAIN wrows})
    IN  [k \in DOMAIN months |->
            MonthRecord(months[k], SelectSeq(wrows, LAMBDA x : x.row.month = months[k]))]

\* Series.mean()
Mean(s) == SeqSum(s) \div Len(s)

\* variant: a trend without any weight is reported as "no data"
QueryResult_ZeroIsNone(monthly) ==
    LET recent == LastK(monthly, 3)
    IN  IF \A k \in DOMAIN monthly : monthly[k].crime_count = 0 THEN None
        ELSE
        [null          |-> FALSE,
         monthly_trend |-> monthly,
         current_risk  |-> monthly[Len(monthly)].risk_score,
         recent_stats  |->
            [total    |-> Mean([i \in DOMAIN recent |-> recent[i].crime_count]),
             violent  |-> Mean([i \in DOMAIN recent |-> recent[i].violent_count]),
             property |-> Mean([i \in DOMAIN recent |-> recent[i].property_count]),
             other    |-> Mean([i \in DOMAIN recent |-> recent[i].other_count])]]

\* lines 268-277
QueryResult(monthly) ==
    LET recent == LastK(monthly, 3)
    IN  [null          |-> FALSE,
         monthly_trend |-> monthly,
         current_risk  |-> monthly[Len(monthly)].risk_score,
         recent_stats  |->
            [total    |-> Mean([i \in DOMAIN recent |-> recent[i].crime_count]),
             violent  |-> Mean([i \in DOMAIN recent |-> recent[i].violent_count]),
             property |-> Mean([i \in DOMAIN recent |-> recent[i].property_count]),
             other    |-> Mean([i \in DOMAIN recent |-> recent[i].other_count])]]

\* get_location_stats: the value returned, and whether the call raises
\* (no row for the nearby anchors, or weights that sum to zero)
get_location_stats(df, anchors, lat, lon, radius) ==
    CHOOSE out \in
        {IF near = {} THEN [raised |-> FALSE, result |-> None]
         ELSE CHOOSE o \in
            {IF wrows = <<>>
                \/ \E m \in {wrows[i].row.month : i \in DOMAIN wrows} :
                      SeqSum([i \in DOMAIN wrows |->
                          IF wrows[i].row.month = m THEN wrows[i].weight ELSE 0]) = 0
             THEN [raised |-> TRUE, result |-> None]
             ELSE [raised |-> FALSE, result |-> QueryResult(MonthlyStats(wrows))] :
                wrows \in {WeightedRows(df, anchors, near,
                              QueryWeights(anchors, near, lat, lon))}}
            : TRUE :
            near \in {Nearby(anchors, lat, lon, radius)}}
        : TRUE

\* the three columns of the rows selected, each under its index label
HeatmapRows(df, sel) ==
    LET ix == SortSet(sel)
    IN  [k \in DOMAIN ix |->
            [index |-> ix[k], latitude |-> df[ix[k]].latitude,
             longitude |-> df[ix[k]].longitude, risk_score |-> df[ix[k]].risk_score]]

\* variant: the month of the first row is taken for the latest
get_current_heatmap_data_First(df) ==
    [raised |-> FALSE,
     rows   |-> HeatmapRows(df, IF df = <<>> THEN {}
                                ELSE {i \in DOMAIN df : df[i].month = df[1].month})]

\* variant: the maximum of an empty month column is an error
get_current_heatmap_data_MaxRaises(df) ==
    [raised |-> df = <<>>,
     rows   |-> HeatmapRows(df, IF df = <<>> THEN {}
                                ELSE {i \in DOMAIN df : df[i].month = SetMax(Months(df))})]

\* get_current_heatmap_data: the rows of the latest month (the maximum of an empty
\* month column is NaT, which no month equals), and whether the call raises
get_current_heatmap_data(df) ==
    [raised |-> FALSE,
     rows   |-> HeatmapRows(df, IF df = <<>> THEN {}
                                ELSE {i \in DOMAIN df : df[i].month = SetMax(Months(df))})]

\* ------------------------------------------------------------ CrimeVisualization
\* CrimeStatsDB(grid_size) over file f on date today: the new store and the file
NewStore(f, g, today) ==
    IF f.exists
    THEN CHOOSE s \in
            {[stats_df |-> db.stats_df, anchor_points |-> db.anchor_points,
              file |-> f, raised |-> db.raised] : db \in {LoadDb(f.rows)}} : TRUE
    ELSE CHOOSE s \in
            {[stats_df |-> db.stats_df, anchor_points |-> db.anchor_points,
              file |-> IF Cardinality(Months(db.stats_df)) = WindowMonths
                       THEN [exists |-> TRUE, rows |-> to_csv(db.stats_df)]
                       ELSE f,
              raised |-> Cardinality(Months(db.stats_df)) # WindowMonths] :
                db \in {CreateEmptyDb(g, today)}} : TRUE

\* lines 202-206 of crime_visualization.py: "Database is current"
IsCurrent(df, today) ==
    /\ get_current_heatmap_data(df).rows # <<>>
    /\ FromOrdinal(SetMax(Months(df)))[2] = today[2]

\* CrimeVisualization.update_database(force) when fetch_crime_data returns fetched:
\* the store's table, the file, the batch as update_stats leaves it, and what the
\* call did; an exception of update_stats is caught at line 219
update_database(df, anchors, f, today, force, fetched) ==
    IF ~force /\ IsCurrent(df, today)
    THEN [skipped |-> TRUE, updated |-> FALSE, swallowed |-> FALSE,
          stats_df |-> df, file |-> f, crime_data |-> <<>>]
    ELSE IF fetched = <<>>
    THEN [skipped |-> FALSE, updated |-> FALSE, swallowed |-> FALSE,
          stats_df |-> df, file |-> f, crime_data |-> <<>>]
    ELSE CHOOSE r \in
            {[skipped |-> FALSE, updated |-> TRUE, swallowed |-> u.raised,
              stats_df |-> u.stats_df,
              file |-> IF u.raised THEN f
                       ELSE [exists |-> TRUE, rows |-> to_csv(u.stats_df)],
              crime_data |-> u.crime_data] :
                u \in {update_stats(df, anchors, fetched)}} : TRUE

\* to_dict('records'): the columns of each row, without the index
ToRecords(rows) ==
    [k \in DOMAIN rows |->
        [latitude |-> rows[k].latitude, longitude |-> rows[k].longitude,
         risk_score |-> rows[k].risk_score]]

\* create_crime_markers(resolution) when fetch_crime_data returns fetched: the
\* markers returned and the file left behind; an exception of the store's
\* construction is not caught
create_crime_markers(f, resolution, today, fetched) ==
    CHOOSE out \in
        {IF s.raised
         THEN [raised |-> TRUE, rows |-> <<>>, file |-> s.file]
         ELSE CHOOSE o \in
                 {[raised |-> FALSE,
                   rows |-> ToRecords(get_current_heatmap_data(r.stats_df).rows),
                   file |-> r.file] :
                     r \in {update_database(s.stats_df, s.anchor_points, s.file,
                                            today, FALSE, fetched)}} : TRUE
            : s \in {NewStore(f, resolution, today)}} : TRUE

\* ------------------------------------------------------------ inputs
GridSizes == {1, 2}

NowDates == {<<2025, 1, 31>>}

\* the date, as text, k months after today's month, on day d
TextDate(today, k, d) ==
    LET mi == (today[1] * 12) + (today[2] - 1) + k
    IN  [text |-> <<mi \div 12, (mi % 12) + 1, d>>]

Obs(id, lat, lon, date, cat) ==
    [id |-> id, latitude |-> lat, longitude |-> lon,
     date_of_occurrence |-> date, nibrs_crime_category |-> cat]

\* the incidents a fetch may return, relative to the current month
Incidents(today) ==
    << Obs(1, lat_min, lon_min, TextDate(today, 0, 15), "ASSAULT"),
       Obs(2, lat_min + 1, lon_min, TextDate(today, 0, 3), "THEFT"),
       Obs(3, (lat_min + lat_max) \div 2, (lon_min + lon_max) \div 2,
              TextDate(today, 1, 1), "FRAUD"),
       Obs(4, ((lat_min + lat_max) \div 2) + 5, (lon_min + lon_max) \div 2,
              TextDate(today, -12, 28), "BURGLARY") >>

\* a DataFrame of the incidents whose index is in S, in index order
RECURSIVE Pick(_, _, _)
Pick(all, S, i) ==
    IF i > Len(all) THEN <<>>
    ELSE (IF i \in S THEN <<all[i]>> ELSE <<>>) \o Pick(all, S, i + 1)

Batches(today) ==
    {Pick(Incidents(today), S, 1) : S \in (SUBSET (1..Len(Incidents(today)))) \ {{}}}

\* query points and radii (0.01 degree units): the origin, an anchor, a point at
\* distance exactly 1 from it, and a point at distance sqrt(2) from it
Queries ==
    { <<0, 0, 1>>,
      <<lat_min, lon_min, 1>>,
      <<lat_min + 1, lon_min, 1>>,
      <<lat_min + 1, lon_min + 1, 1>>,
      <<lat_min + 1, lon_min + 1, 2>> }

\* the coordinate bounds the fetch layer accepts (0.01 degree units)
valid_lat_min == 3240
valid_lat_max == 3320
valid_lon_min == -9770
valid_lon_max == -9630

\* fetch_crime_data's coordinate filter
valid_coords(o) ==
    /\ o.latitude >= valid_lat_min /\ o.latitude <= valid_lat_max
    /\ o.longitude >= valid_lon_min /\ o.longitude <= valid_lon_max

\* incidents of the current month, the last two with coordinates outside the bounds
MixedIncidents(today) ==
    << Obs(1, lat_min, lon_min, TextDate(today, 0, 15), "ASSAULT"),
       Obs(2, lat_min + 1, lon_min, TextDate(today, 0, 3), "THEFT"),
       Obs(5, valid_lat_min - 6, lon_min, TextDate(today, 0, 9), "ROBBERY"),
       Obs(6, lat_max, valid_lon_max + 1, TextDate(today, 0, 20), "THEFT") >>

MixedBatches(today) ==
    {Pick(MixedIncidents(today), S, 1) :
        S \in (SUBSET (1..Len(MixedIncidents(today)))) \ {{}}}

\* a row of a table found on disk
DataRow(p, ymd, risk, violent, property, other) ==
    [latitude |-> p[1], longitude |-> p[2], month |-> ToOrdinal(ymd),
     risk_score |-> risk, crime_count |-> violent + property + other,
     violent_count |-> violent, property_count |-> property, other_count |-> other]

\* tables found on disk with complete matrices: one anchor and one month; two
\* anchors and two months, the later month first
OneMonthTable ==
    << DataRow(<<lat_min, lon_min>>, <<2025, 1, 1>>, 400, 30, 20, 10) >>

TwoMonthTable ==
    << DataRow(<<lat_min, lon_min>>, <<2025, 1, 1>>, 1000, 40, 20, 0),
       DataRow(<<lat_min, lon_min>>, <<2024, 12, 1>>, 0, 10, 0, 0),
       DataRow(<<lat_min + 2, lon_min + 1>>, <<2025, 1, 1>>, 0, 0, 10, 10),
       DataRow(<<lat_min + 2, lon_min + 1>>, <<2024, 12, 1>>, 1000, 50, 0, 30) >>

\* data/crime_stats.csv as an earlier run or another program may have left it: a
\* header without rows, and the two tables
StoredFiles ==
    { [exists |-> TRUE, rows |-> <<>>],
      [exists |-> TRUE, rows |-> to_csv(OneMonthTable)],
      [exists |-> TRUE, rows |-> to_csv(TwoMonthTable)] }

\* a file whose table lacks the row of the second anchor for 2024-12, and a file
\* whose first month is no date
CorruptFiles ==
    { [exists |-> TRUE, rows |-> to_csv(SubSeq(TwoMonthTable, 1, 3))],
      [exists |-> TRUE, rows |->
          [to_csv(TwoMonthTable) EXCEPT ![1].month = <<2025, 13, 1>>]] }

\* the batches applied to a store loaded from a file
FileBatches(today) ==
    {Pick(Incidents(today), S, 1) : S \in {{1}, {1, 2}, {3}, {4}}}

\* the batches the threads pass: one of the current month, one of the next
ThreadBatches(today) ==
    {Pick(Incidents(today), S, 1) : S \in {{1, 2}, {3}}}

\* the incidents of the batches applied within one window: one at an anchor in the
\* current month, one in the month before, one at the centre of the mesh
WindowIncidents(today) ==
    << Obs(1, lat_min, lon_min, TextDate(today, 0, 15), "ASSAULT"),
       Obs(2, lat_min + 1, lon_min, TextDate(today, -1, 3), "THEFT"),
       Obs(3, (lat_min + lat_max) \div 2, (lon_min + lon_max) \div 2,
              TextDate(today, 0, 20), "FRAUD") >>

WindowBatches(today) ==
    {Pick(WindowIncidents(today), S, 1) :
        S \in (SUBSET (1..Len(WindowIncidents(today)))) \ {{}}}

\* the table a store created on date d with grid_size g has persisted
FileCreatedOn(g, d) ==
    [exists |-> TRUE, rows |-> to_csv(CreateEmptyDb(g, d).stats_df)]

\* what the visualization finds on disk: nothing, the table of a store created
\* the month before today, or the table of a store created a year before today
VizFiles(today) ==
    { NoFile,
      FileCreatedOn(2, <<today[1] - 1, 12, 15>>),
      FileCreatedOn(2, <<today[1] - 1, today[2], 15>>) }

\* what fetch_crime_data returns: no rows, or incidents of the last 30 days
FetchedBatches(today) ==
    {Pick(Incidents(today), S, 1) : S \in {{}, {1}, {1, 2}}}

\* ------------------------------------------------------------ update_stats, step by step
\* the threads that may call update_stats on one store
Threads == {1, 2}

\* a thread outside update_stats
Idle == [pc |-> "idle", batch |-> <<>>, cd |-> <<>>, lo |-> 0, hi |-> 0, k |-> 0]

\* lines 109-126: the locals of a call that has binned and categorized its batch
BeginCall(batch) ==
    LET cd == WithMonth(batch)
        latest_month == SetMax({cd[i].month : i \in DOMAIN cd})
        twelve_months_ago == ReplaceDay1(SubMonths(latest_month, WindowMonths - 1))
    IN  [pc |-> "filter", batch |-> batch,
         cd |-> SelectSeq(cd, LAMBDA o : o.month >= twelve_months_ago),
         lo |-> twelve_months_ago, hi |-> latest_month, k |-> 0]

\* variant: the reset of the window is left out
FilterStep_Skipped(df, c) == df

\* lines 129-132: self.stats_df is replaced by its rows outside the call's window
FilterStep(df, c) == ResetWindow(df, c.lo, c.hi)

\* lines 135-150: self.stats_df is replaced by itself with the zeroed window rows
ExtendStep(df, anchors, c) == df \o ZeroRows(anchors, date_range(c.lo, c.hi))

\* the months of the call's batch, in order of first appearance
CallMonths(c) == Unique([i \in DOMAIN c.cd |-> c.cd[i].month])

\* lines 165-184 for the k-th (month, anchor) pair of the loops
OverwriteStep(df, anchors, c) ==
    LET n == Len(anchors)
        m == CallMonths(c)[((c.k - 1) \div n) + 1]
        p == anchors[((c.k - 1) % n) + 1]
    IN  [i \in DOMAIN df |-> OverwriteRow(df[i], <<p>>, c.cd, <<m>>)]

\* lines 187-194: the scores of the months of the batch
NormalizeStep(df, c) ==
    CHOOSE out \in {[i \in DOMAIN df |-> NormalizeRow(df[i], range)] :
                        range \in {MonthRange(df, CallMonths(c))}} : TRUE

\* ------------------------------------------------------------ CrimeSpatialAnalyzer
\* (src/crime_spatial.py) A float of the analyzer is a number or NaN; time weights
\* are kept in units of 1/TScale.
TScale == 1000
Buffer == 5
DecayDays == 365

Num(v) == [nan |-> FALSE, v |-> v]
NaN == [nan |-> TRUE, v |-> 0]

NoAnalyzer ==
    [built |-> FALSE, raw_data |-> <<>>, grid_size |-> 0,
     anchor_points |-> <<>>, anchor_scores |-> <<>>]

\* lines 37-40: the bounds of the data with the buffer; min() and max() of an
\* empty column are NaN
DataBounds(data) ==
    IF data = <<>>
    THEN [lat_min |-> NaN, lat_max |-> NaN, lon_min |-> NaN, lon_max |-> NaN]
    ELSE [lat_min |-> Num(SetMin({data[i].latitude : i \in DOMAIN data}) - Buffer),
          lat_max |-> Num(SetMax({data[i].latitude : i \in DOMAIN data}) + Buffer),
          lon_min |-> Num(SetMin({data[i].longitude : i \in DOMAIN data}) - Buffer),
          lon_max |-> Num(SetMax({data[i].longitude : i \in DOMAIN data}) + Buffer)]

\* np.linspace over floats
FloatLinspace(lo, hi, n) ==
    IF lo.nan \/ hi.nan THEN [i \in 1..n |-> NaN]
    ELSE [i \in 1..n |-> Num(linspace(lo.v, hi.v, n)[i])]

\* lines 43-46
initialize_anchor_points(data, g) ==
    LET b == DataBounds(data)
        lat_range == FloatLinspace(b.lat_min, b.lat_max, g)
        lon_range == FloatLinspace(b.lon_min, b.lon_max, g)
    IN  [k \in 1..(g * g) |->
            <<lat_range[((k - 1) % g) + 1], lon_range[((k - 1) \div g) + 1]>>]

\* division that rounds toward zero
Trunc(a, b) == IF a < 0 THEN 0 - ((0 - a) \div b) ELSE a \div b

\* the terms k, k+1, ... of the series of exp(-days / 365), in units of 1/TScale
RECURSIVE ExpSeries(_, _, _)
ExpSeries(days, k, term) ==
    IF k > 8 \/ term = 0 THEN 0
    ELSE term + ExpSeries(days, k + 1, Trunc(term * (0 - days), DecayDays * (k + 1)))

\* lines 65-66: np.exp(-days_ago / 365) for the days between the observation and now
time_weight(today, o) ==
    ExpSeries(ToOrdinal(today) - to_datetime(o.date_of_occurrence), 0, TScale)

\* lines 71-80 for one anchor: the sum of its time-weighted distance weights
AnchorSum(p, data, today) ==
    IF data = <<>> THEN Num(0)
    ELSE IF p[1].nan \/ p[2].nan THEN NaN
    ELSE Num(SeqSum([i \in DOMAIN data |->
            (Weight(Dist2(<<p[1].v, p[2].v>>, data[i].latitude, data[i].longitude))
                * time_weight(today, data[i])) \div TScale]))

\* lines 83-84: (s - min) / (max - min); 0 / 0 is NaN
MinMaxNormalize(sums) ==
    IF \E k \in DOMAIN sums : sums[k].nan THEN [k \in DOMAIN sums |-> NaN]
    ELSE LET lo == SetMin({sums[k].v : k \in DOMAIN sums})
             hi == SetMax({sums[k].v : k \in DOMAIN sums})
         IN  IF hi = lo THEN [k \in DOMAIN sums |-> NaN]
             ELSE [k \in DOMAIN sums |-> Num(((sums[k].v - lo) * RScale) \div (hi - lo))]

\* _update_anchor_scores
update_anchor_scores(anchors, data, today) ==
    MinMaxNormalize([k \in DOMAIN anchors |-> AnchorSum(anchors[k], data, today)])

\* lines 103-106: the inverse-square-distance weights from a point to the anchors
PointWeights(anchors, pt) ==
    [k \in DOMAIN anchors |->
        IF anchors[k][1].nan \/ anchors[k][2].nan THEN NaN
        ELSE Num(Weight(Dist2(<<anchors[k][1].v, anchors[k][2].v>>, pt[1], pt[2])))]

\* the sum of floats
FloatSum(w) ==
    IF \E k \in DOMAIN w : w[k].nan THEN NaN
    ELSE Num(SeqSum([k \in DOMAIN w |-> w[k].v]))

\* weights / total
NormalizeBy(w, total) ==
    [k \in DOMAIN w |->
        IF w[k].nan \/ total.nan THEN NaN ELSE Num((w[k].v * NScale) \div total.v)]

\* np.sum(weights * self.anchor_scores) over one row of weights
WeightedScore(w, scores) ==
    IF \E k \in DOMAIN w : w[k].nan \/ scores[k].nan THEN NaN
    ELSE Num(SeqSum([k \in DOMAIN w |-> w[k].v * scores[k].v]) \div NScale)

\* get_score
get_score(a, pt) ==
    LET weights == PointWeights(a.anchor_points, pt)
    IN  WeightedScore(NormalizeBy(weights, FloatSum(weights)), a.anchor_scores)

\* variant: the weights are divided by the sum of the whole matrix
get_scores_batch_TotalSum(a, points) ==
    LET weights == [i \in DOMAIN points |-> PointWeights(a.anchor_points, points[i])]
        total   == FloatSum([i \in DOMAIN points |-> FloatSum(weights[i])])
    IN  [i \in DOMAIN points |->
            WeightedScore(NormalizeBy(weights[i], total), a.anchor_scores)]

\* get_scores_batch: the weight matrix, each row divided by its sum (axis=1), and
\* the row sums of weights * anchor_scores
get_scores_batch(a, points) ==
    LET weights  == [i \in DOMAIN points |-> PointWeights(a.anchor_points, points[i])]
        row_sums == [i \in DOMAIN points |-> FloatSum(weights[i])]
        normal   == [i \in DOMAIN points |-> NormalizeBy(weights[i], row_sums[i])]
    IN  [i \in DOMAIN points |-> WeightedScore(normal[i], a.anchor_scores)]

\* get_high_risk_areas: a comparison with NaN is False
get_high_risk_areas(a, threshold) ==
    LET sel == {k \in DOMAIN a.anchor_scores :
                    ~a.anchor_scores[k].nan /\ a.anchor_scores[k].v >= threshold}
        ix  == SortSet(sel)
    IN  [j \in DOMAIN ix |->
            [latitude |-> a.anchor_points[ix[j]][1], longitude |-> a.anchor_points[ix[j]][2],
             risk_score |-> a.anchor_scores[ix[j]]]]

\* the observation frames an analyzer is built over: none, or some of the incidents
AnalyzerData(today) == {<<>>} \cup Batches(today)

\* query points near the incidents, and arrays of one or two of them
ScorePoints ==
    { <<lat_min, lon_min>>, <<lat_min + 1, lon_min>>, <<lat_min + 3, lon_min - 2>>,
      <<(lat_min + lat_max) \div 2, (lon_min + lon_max) \div 2>> }

PointArrays ==
    {<<p>> : p \in ScorePoints} \cup {<<p, q>> : p \in ScorePoints, q \in ScorePoints}

\* get_high_risk_areas thresholds: the default 0.75, and 0
Thresholds == {(3 * RScale) \div 4, 0}

\* ------------------------------------------------------------ CrimeAnalyzer
\* (src/crime_analysis.py, src/crime_visualization.py) Rates are kept in units of
\* 1/RateScale, areas in tenths of a square mile.
RateScale == 1000
Per100k == 100000
MonthDays == 30
RollingWindow == 3

CITY_POPULATIONS == [c \in {"Dallas", "Fort Worth"} |->
                        IF c = "Dallas" THEN 1304000 ELSE 958692]

CITY_AREAS == [c \in {"Dallas", "Fort Worth"} |-> IF c = "Dallas" THEN 3830 ELSE 3556]

\* dict.get(city, 0)
GetOr0(d, city) == IF city \in DOMAIN d THEN d[city] ELSE 0

\* an optional datetime argument
NoDate == [none |-> TRUE, ts |-> 0]
Date(ts) == [none |-> FALSE, ts |-> ts]

\* the order of the city names (groupby sorts its keys)
CityRank(city) ==
    IF city = "Dallas" THEN 1 ELSE IF city = "Fort Worth" THEN 2 ELSE 3

\* pd.Grouper(key='date_of_occurrence', freq=window_size): the window of a date
WindowOf(ts, window_size) == IF window_size = "1M" THEN MonthBin(ts) ELSE ts

\* value_counts().to_dict()
TypeCounts(group) ==
    [c \in {group[i].nibrs_crime_category : i \in DOMAIN group} |->
        Cardinality({i \in DOMAIN group : group[i].nibrs_crime_category = c})]

\* lines 69-84: the record of one (window, city) group
GroupStats(window, city, group) ==
    LET population == GetOr0(CITY_POPULATIONS, city)
        area == GetOr0(CITY_AREAS, city)
        total_incidents == Len(group)
    IN  [time_window |-> window, city |-> city,
         total_incidents |-> total_incidents,
         incidents_by_type |-> TypeCounts(group),
         rate_per_100k |-> IF population > 0
                           THEN ((total_incidents * Per100k) * RateScale) \div population
                           ELSE 0,
         rate_per_sqmile |-> IF area > 0
                             THEN ((total_incidents * 10) * RateScale) \div area
                             ELSE 0]

\* the (window, city) keys of the groups, in groupby's order
GroupKeys(data, window_size) ==
    LET keys == {<<WindowOf(data[i].ts, window_size), data[i].city>> : i \in DOMAIN data}
        Before(a, b) == a[1] < b[1] \/ (a[1] = b[1] /\ CityRank(a[2]) <= CityRank(b[2]))
    IN  [k \in 1..Cardinality(keys) |->
            CHOOSE x \in keys : Cardinality({y \in keys : Before(y, x)}) = k]

\* calculate_time_window_stats
calculate_time_window_stats(data, window_size, min_date, max_date) ==
    LET dated == [i \in DOMAIN data |->
                    [ts |-> to_datetime(data[i].date_of_occurrence),
                     city |-> data[i].city,
                     nibrs_crime_category |-> data[i].nibrs_crime_category]]
        inwin == SelectSeq(dated, LAMBDA o :
                    /\ (min_date.none \/ o.ts >= min_date.ts)
                    /\ (max_date.none \/ o.ts <= max_date.ts))
        keys  == GroupKeys(inwin, window_size)
    IN  [k \in DOMAIN keys |->
            GroupStats(keys[k][1], keys[k][2],
                SelectSeq(inwin, LAMBDA o :
                    WindowOf(o.ts, window_size) = keys[k][1] /\ o.city = keys[k][2]))]

\* rolling(window=3, min_periods=1).mean() at position k
RollingMean(values, k) ==
    LET from == IF k < RollingWindow THEN 1 ELSE k - RollingWindow + 1
    IN  SeqSum(SubSeq(values, from, k)) \div (k - from + 1)

\* lines 40-55 for one city: its rows by time_window, with the moving average and
\* the rates by crime type; CITY_POPULATIONS[city] raises KeyError
CityRates(stats, city) ==
    LET city_stats == SelectSeq(stats, LAMBDA r : r.city = city)
        rates == [k \in DOMAIN city_stats |-> city_stats[k].rate_per_100k]
    IN  IF city \notin DOMAIN CITY_POPULATIONS
        THEN [raised |-> TRUE, rows |-> <<>>]
        ELSE [raised |-> FALSE,
              rows |-> [k \in DOMAIN city_stats |->
                 [time_window |-> city_stats[k].time_window, city |-> city,
                  total_incidents |-> city_stats[k].total_incidents,
                  rate_per_100k |-> city_stats[k].rate_per_100k,
                  rate_per_sqmile |-> city_stats[k].rate_per_sqmile,
                  moving_avg_rate |-> RollingMean(rates, k),
                  crime_type_rates |->
                     [c \in DOMAIN city_stats[k].incidents_by_type |->
                        ((city_stats[k].incidents_by_type[c] * Per100k) * RateScale)
                            \div CITY_POPULATIONS[city]]]]]

\* the concatenation of the rows of the cities
RECURSIVE ConcatRows(_, _)
ConcatRows(parts, k) ==
    IF k > Len(parts) THEN <<>> ELSE parts[k].rows \o ConcatRows(parts, k + 1)

\* CrimeVisualizer.calculate_monthly_rates(months): stats['city'] of a frame without
\* rows, and so without columns, raises KeyError
calculate_monthly_rates(data, today, months) ==
    LET end_date == ToOrdinal(today)
        stats == calculate_time_window_stats(data, "1M",
                     Date(end_date - (months * MonthDays) + 1), Date(end_date))
        cities == Unique([k \in DOMAIN stats |-> stats[k].city])
        parts == [j \in DOMAIN cities |-> CityRates(stats, cities[j])]
    IN  IF stats = <<>> \/ \E j \in DOMAIN parts : parts[j].raised
        THEN [raised |-> TRUE, rows |-> <<>>]
        ELSE [raised |-> FALSE, rows |-> ConcatRows(parts, 1)]

\* the order of the crime categories (groupby sorts its keys)
TypeRank(c) ==
    IF c = "ASSAULT" THEN 1 ELSE IF c = "BURGLARY" THEN 2 ELSE IF c = "FRAUD" THEN 3
    ELSE IF c = "ROBBERY" THEN 4 ELSE 5

\* lines 110-114 and 133-136: groupby(...).size(), one row per (date, city) or per
\* (date, city, crime type), in the order of the keys
DailyCounts(data, by_type) ==
    LET TypeOf(o) == IF by_type THEN o.nibrs_crime_category ELSE "all"
        keys == {<<to_datetime(data[i].date_of_occurrence), data[i].city, TypeOf(data[i])>> :
                    i \in DOMAIN data}
        Before(a, b) ==
            \/ a[1] < b[1]
            \/ (a[1] = b[1] /\ CityRank(a[2]) < CityRank(b[2]))
            \/ (a[1] = b[1] /\ a[2] = b[2] /\ TypeRank(a[3]) <= TypeRank(b[3]))
        sorted == [k \in 1..Cardinality(keys) |->
                    CHOOSE x \in keys : Cardinality({y \in keys : Before(y, x)}) = k]
    IN  [k \in DOMAIN sorted |->
            [date |-> sorted[k][1], city |-> sorted[k][2], crime_type |-> sorted[k][3],
             count |-> Cardinality({i \in DOMAIN data :
                          /\ to_datetime(data[i].date_of_occurrence) = sorted[k][1]
                          /\ data[i].city = sorted[k][2]
                          /\ TypeOf(data[i]) = sorted[k][3]})]]

\* rolling(window=window_days).mean() at position k: min_periods defaults to the
\* window, so a position with fewer than window_days samples is NaN
RollingMeanFull(values, window_days, k) ==
    IF k < window_days
    THEN NaN
    ELSE Num((SeqSum(SubSeq(values, (k - window_days) + 1, k)) * RateScale) \div window_days)

\* lines 119-128 and 141-147: the moving averages of one series of daily counts
SeriesAverages(series, window_days, by_type) ==
    LET counts == [k \in DOMAIN series |-> series[k].count]
    IN  [k \in DOMAIN series |->
            IF by_type
            THEN [date |-> series[k].date, city |-> series[k].city,
                  crime_type |-> series[k].crime_type,
                  moving_average |-> RollingMeanFull(counts, window_days, k)]
            ELSE [date |-> series[k].date, city |-> series[k].city,
                  moving_average |-> RollingMeanFull(counts, window_days, k)]]

\* the (city, crime type) series in the order of unique() over the daily counts
SeriesKeys(daily) ==
    LET cities == Unique([k \in DOMAIN daily |-> daily[k].city])
        TypesOf(city) ==
            LET city_data == SelectSeq(daily, LAMBDA r : r.city = city)
            IN  Unique([k \in DOMAIN city_data |-> city_data[k].crime_type])
        RECURSIVE Keys(_)
        Keys(j) ==
            IF j > Len(cities) THEN <<>>
            ELSE [t \in DOMAIN TypesOf(cities[j]) |-> <<cities[j], TypesOf(cities[j])[t]>>]
                     \o Keys(j + 1)
    IN  Keys(1)

\* calculate_moving_average(window_days, by_type); pd.concat of no frames raises
calculate_moving_average(data, window_days, by_type) ==
    LET daily == DailyCounts(data, by_type)
        keys == SeriesKeys(daily)
        parts == [j \in DOMAIN keys |->
                    [rows |-> SeriesAverages(
                        SelectSeq(daily, LAMBDA r :
                            r.city = keys[j][1] /\ r.crime_type = keys[j][2]),
                        window_days, by_type)]]
    IN  IF data = <<>>
        THEN [raised |-> TRUE, rows |-> <<>>]
        ELSE [raised |-> FALSE, rows |-> ConcatRows(parts, 1)]

\* an observation with its city
CityObs(id, city, date, cat) ==
    [id |-> id, city |-> city, date_of_occurrence |-> date, nibrs_crime_category |-> cat]

\* the observations an analyzer may be built over; Plano is in no reference table
CityIncidents(today) ==
    << CityObs(1, "Dallas", TextDate(today, 0, 15), "ASSAULT"),
       CityObs(2, "Dallas", TextDate(today, 0, 3), "THEFT"),
       CityObs(3, "Fort Worth", TextDate(today, 0, 9), "THEFT"),
       CityObs(4, "Plano", TextDate(today, 0, 20), "THEFT"),
       CityObs(5, "Plano", TextDate(today, -1, 5), "ROBBERY"),
       CityObs(6, "Dallas", TextDate(today, -1, 28), "THEFT"),
       CityObs(7, "Fort Worth", TextDate(today, -13, 2), "FRAUD") >>

CityData(today) ==
    {Pick(CityIncidents(today), S, 1) : S \in SUBSET (1..Len(CityIncidents(today)))}

WindowSizes == {"1D", "1M"}

MonthsBack == {12}

WindowDays == {1, 2}

\* astype(int): the fraction is dropped, towards zero
AsInt(a, b) == Trunc(a, b)

\* lines 185-186: the grid_lat and grid_lon of an observation
GridCell(o, g) ==
    [grid_lat |-> AsInt(o.latitude, g) * g, grid_lon |-> AsInt(o.longitude, g) * g]

\* lines 176-182: the rows of the date range asked for
HotspotData(data, min_date, max_date) ==
    SelectSeq(data, LAMBDA o :
        /\ (min_date.none \/ to_datetime(o.date_of_occurrence) >= min_date.ts)
        /\ (max_date.none \/ to_datetime(o.date_of_occurrence) <= max_date.ts))

\* lines 189-192: the (grid_lat, grid_lon, city) keys of the groups, in groupby's order
HotspotKeys(data, g) ==
    LET keys == {<<GridCell(data[i], g).grid_lat, GridCell(data[i], g).grid_lon,
                   data[i].city>> : i \in DOMAIN data}
        Before(a, b) ==
            \/ a[1] < b[1]
            \/ (a[1] = b[1] /\ a[2] < b[2])
            \/ (a[1] = b[1] /\ a[2] = b[2] /\ CityRank(a[3]) <= CityRank(b[3]))
    IN  [k \in 1..Cardinality(keys) |->
            CHOOSE x \in keys : Cardinality({y \in keys : Before(y, x)}) = k]

\* get_hotspots(grid_size, min_date, max_date); the centres are in halves of the
\* coordinate unit, so that lat + grid_size/2 is a whole number
get_hotspots(raw, g, min_date, max_date) ==
    LET data == HotspotData(raw, min_date, max_date)
        keys == HotspotKeys(data, g)
    IN  [k \in DOMAIN keys |->
            LET group == SelectSeq(data, LAMBDA o :
                            /\ GridCell(o, g).grid_lat = keys[k][1]
                            /\ GridCell(o, g).grid_lon = keys[k][2]
                            /\ o.city = keys[k][3])
            IN  [center_lat |-> (2 * keys[k][1]) + g,
                 center_lon |-> (2 * keys[k][2]) + g,
                 incident_count |-> Len(group),
                 crime_types |-> TypeCounts(group),
                 city |-> keys[k][3]]]

\* an observation with its city and its coordinates
GeoObs(id, city, lat, lon, date, cat) ==
    [id |-> id, city |-> city, latitude |-> lat, longitude |-> lon,
     date_of_occurrence |-> date, nibrs_crime_category |-> cat]

\* the located observations an analyzer may be built over
GeoIncidents(today) ==
    << GeoObs(1, "Dallas", 3278, -9680, TextDate(today, 0, 15), "ASSAULT"),
       GeoObs(2, "Dallas", 3279, -9677, TextDate(today, 0, 3), "THEFT"),
       GeoObs(3, "Fort Worth", 3275, -9733, TextDate(today, 0, 9), "THEFT"),
       GeoObs(4, "Dallas", 3278, -9680, TextDate(today, -1, 28), "THEFT"),
       GeoObs(5, "Plano", 3302, -9670, TextDate(today, -1, 5), "ROBBERY") >>

GeoData(today) ==
    {Pick(GeoIncidents(today), S, 1) : S \in SUBSET (1..Len(GeoIncidents(today)))}

\* cell sizes in coordinate units: the default of 0.01 degree, and 0.05 degree
CellSizes == {1, 5}

\* the date ranges asked for: none, and from the first day of the current month
HotspotRanges(today) ==
    {<<NoDate, NoDate>>, <<Date(ToOrdinal(<<today[1], today[2], 1>>)), NoDate>>}

\* ------------------------------------------------------------ operations
Outcome(op, raised, args, result) ==
    [op |-> op, raised |-> raised, args |-> args, result |-> result]

\* dates for the construction of a store: first, middle and last day of each
\* month of leap years, common years and a century year that is no leap year
CreateDates ==
    {<<y, m, d>> : y \in {2023, 2024, 2025, 2100}, m \in 1..12, d \in {1, 15, 28}}
    \cup {<<y, m, DaysInMonth(y, m)>> : y \in {2023, 2024, 2025, 2100}, m \in 1..12}

InitStore(dates, files) ==
    /\ now \in dates
    /\ file \in files
    /\ alive = FALSE
    /\ grid_size = 0
    /\ anchor_points = <<>>
    /\ stats_df = <<>>
    /\ crime_data = <<>>
    /\ nCalls = 0
    /\ last = Outcome("none", FALSE, <<>>, None)
    /\ calls = [t \in Threads |-> Idle]
    /\ interleaved = FALSE
    /\ analyzer = NoAnalyzer

InitWith(dates, files) ==
    /\ InitStore(dates, files)
    /\ raw_data = <<>>

InitAt(dates) == InitWith(dates, {NoFile})

Init == InitAt(NowDates)

InitCreate == InitAt(CreateDates)

InitFile == InitWith(NowDates, StoredFiles)

InitCorrupt == InitWith(NowDates, CorruptFiles)

\* CrimeStatsDB.__init__ with _initialize_db and _create_empty_db
CrimeStatsDB(g) ==
    /\ grid_size' = g
    /\ IF file.exists
       THEN \E db \in {LoadDb(file.rows)} :
                /\ stats_df' = db.stats_df
                /\ anchor_points' = db.anchor_points
                /\ alive' = ~db.raised
                /\ file' = file
                /\ last' = Outcome("load", db.raised, <<g>>, None)
       ELSE \E db \in {CreateEmptyDb(g, now)} :
                /\ stats_df' = db.stats_df
                /\ anchor_points' = db.anchor_points
                /\ IF Cardinality(Months(db.stats_df)) = WindowMonths
                   THEN /\ file' = [exists |-> TRUE, rows |-> to_csv(db.stats_df)]
                        /\ alive' = TRUE
                        /\ last' = Outcome("create", FALSE, <<g>>, None)
                   ELSE /\ file' = file
                        /\ alive' = FALSE
                        /\ last' = Outcome("create", TRUE, <<g>>, None)
    /\ UNCHANGED <<now, crime_data, nCalls>>
    /\ UNCHANGED others

\* CrimeStatsDB.update_stats(crime_data), the batch fresh or the one passed last
UpdateStats(batch) ==
    /\ alive
    /\ nCalls < MaxCalls
    /\ batch # <<>>
    /\ \E u \in {update_stats(stats_df, anchor_points, batch)} :
           /\ stats_df' = u.stats_df
           /\ crime_data' = u.crime_data
           /\ file' = IF u.raised THEN file
                      ELSE [exists |-> TRUE, rows |-> to_csv(u.stats_df)]
           /\ last' = Outcome("update", u.raised, batch, None)
    /\ nCalls' = nCalls + 1
    /\ UNCHANGED <<now, alive, grid_size, anchor_points>>
    /\ UNCHANGED others

\* CrimeStatsDB.get_location_stats(lat, lon, radius)
GetLocationStats(lat, lon, radius) ==
    /\ alive
    /\ nCalls < MaxCalls
    /\ \E q \in {get_location_stats(stats_df, anchor_points, lat, lon, radius)} :
           last' = Outcome("query", q.raised, <<lat, lon, radius>>, q.result)
    /\ nCalls' = nCalls + 1
    /\ UNCHANGED <<now, file, alive, grid_size, anchor_points, stats_df, crime_data>>
    /\ UNCHANGED others

\* CrimeStatsDB.get_current_heatmap_data()
GetCurrentHeatmapData ==
    /\ alive
    /\ nCalls < MaxCalls
    /\ \E h \in {get_current_heatmap_data(stats_df)} :
           last' = Outcome("heatmap", h.raised, <<>>, [null |-> FALSE, rows |-> h.rows])
    /\ nCalls' = nCalls + 1
    /\ UNCHANGED <<now, file, alive, grid_size, anchor_points, stats_df, crime_data>>
    /\ UNCHANGED others

Next ==
    \/ \E g \in GridSizes : CrimeStatsDB(g)
    \/ \E b \in Batches(now) : UpdateStats(b)
    \/ UpdateStats(crime_data)
    \/ \E q \in Queries : GetLocationStats(q[1], q[2], q[3])
    \/ GetCurrentHeatmapData

Spec == Init /\ [][Next]_vars

\* the construction of a store alone, over the dates of CreateDates
NextCreate == \E g \in GridSizes : CrimeStatsDB(g)

SpecCreate == InitCreate /\ [][NextCreate]_vars

\* a store over a table found on disk
NextFile ==
    \/ \E g \in GridSizes : CrimeStatsDB(g)
    \/ \E b \in FileBatches(now) : UpdateStats(b)
    \/ \E q \in Queries : GetLocationStats(q[1], q[2], q[3])
    \/ GetCurrentHeatmapData

SpecFile == InitFile /\ [][NextFile]_vars

SpecCorrupt == InitCorrupt /\ [][NextFile]_vars

\* updates whose batches lie in the current month and the month before
NextWindow ==
    \/ \E g \in GridSizes : CrimeStatsDB(g)
    \/ \E b \in WindowBatches(now) : UpdateStats(b)
    \/ GetCurrentHeatmapData

SpecWindow == Init /\ [][NextWindow]_vars

\* updates with batches that hold observations outside the coordinate bounds
NextMixed ==
    \/ \E g \in GridSizes : CrimeStatsDB(g)
    \/ \E b \in MixedBatches(now) : UpdateStats(b)
    \/ GetCurrentHeatmapData

SpecMixed == Init /\ [][NextMixed]_vars

\* CrimeVisualization.update_database(force), fetch_crime_data returning fetched
UpdateDatabase(force, fetched) ==
    /\ alive
    /\ nCalls < MaxCalls
    /\ \E r \in {update_database(stats_df, anchor_points, file, now, force, fetched)} :
           /\ stats_df' = r.stats_df
           /\ file' = r.file
           /\ crime_data' = IF r.updated THEN r.crime_data ELSE crime_data
           /\ last' = Outcome("update_database", FALSE, <<force, fetched>>,
                         [null |-> FALSE, skipped |-> r.skipped,
                          updated |-> r.updated, swallowed |-> r.swallowed])
    /\ nCalls' = nCalls + 1
    /\ UNCHANGED <<now, alive, grid_size, anchor_points>>
    /\ UNCHANGED others

\* create_crime_markers(resolution), over a store of its own
CreateCrimeMarkers(resolution, fetched) ==
    /\ nCalls < MaxCalls
    /\ \E out \in {create_crime_markers(file, resolution, now, fetched)} :
           /\ file' = out.file
           /\ last' = Outcome("create_crime_markers", out.raised, <<resolution, fetched>>,
                         [null |-> FALSE, rows |-> out.rows])
    /\ nCalls' = nCalls + 1
    /\ UNCHANGED <<now, alive, grid_size, anchor_points, stats_df, crime_data>>
    /\ UNCHANGED others

InitViz == InitWith(NowDates, VizFiles(<<2025, 1, 31>>))

NextViz ==
    \/ \E g \in GridSizes : CrimeStatsDB(g)
    \/ \E force \in BOOLEAN, b \in FetchedBatches(now) : UpdateDatabase(force, b)
    \/ \E g \in GridSizes, b \in FetchedBatches(now) : CreateCrimeMarkers(g, b)
    \/ GetCurrentHeatmapData

SpecViz == InitViz /\ [][NextViz]_vars

\* update_stats entered by thread t
Begin(t, batch) ==
    /\ alive
    /\ nCalls < MaxCalls
    /\ calls[t].pc = "idle"
    /\ calls' = [calls EXCEPT ![t] = BeginCall(batch)]
    /\ interleaved' = (interleaved \/ \E u \in Threads \ {t} : calls[u].pc # "idle")
    /\ nCalls' = nCalls + 1
    /\ UNCHANGED <<now, file, alive, grid_size, anchor_points, stats_df, crime_data,
                   last, analyzer, raw_data>>

Filter(t) ==
    /\ calls[t].pc = "filter"
    /\ stats_df' = FilterStep(stats_df, calls[t])
    /\ calls' = [calls EXCEPT ![t].pc = "extend"]
    /\ UNCHANGED <<now, file, alive, grid_size, anchor_points, crime_data, nCalls,
                   last, interleaved, analyzer, raw_data>>

Extend(t) ==
    /\ calls[t].pc = "extend"
    /\ stats_df' = ExtendStep(stats_df, anchor_points, calls[t])
    /\ calls' = [calls EXCEPT ![t].pc = IF Len(anchor_points) = 0 THEN "normalize"
                                        ELSE "overwrite",
                              ![t].k = 1]
    /\ UNCHANGED <<now, file, alive, grid_size, anchor_points, crime_data, nCalls,
                   last, interleaved, analyzer, raw_data>>

Overwrite(t) ==
    /\ calls[t].pc = "overwrite"
    /\ stats_df' = OverwriteStep(stats_df, anchor_points, calls[t])
    /\ calls' = [calls EXCEPT
                    ![t].pc = IF calls[t].k = Len(CallMonths(calls[t])) * Len(anchor_points)
                              THEN "normalize" ELSE "overwrite",
                    ![t].k = calls[t].k + 1]
    /\ UNCHANGED <<now, file, alive, grid_size, anchor_points, crime_data, nCalls,
                   last, interleaved, analyzer, raw_data>>

Normalize(t) ==
    /\ calls[t].pc = "normalize"
    /\ stats_df' = NormalizeStep(stats_df, calls[t])
    /\ calls' = [calls EXCEPT ![t].pc = "check"]
    /\ UNCHANGED <<now, file, alive, grid_size, anchor_points, crime_data, nCalls,
                   last, interleaved, analyzer, raw_data>>

\* lines 196-201: the assertion, and the save when it holds
Finish(t) ==
    /\ calls[t].pc = "check"
    /\ \E raised \in {Cardinality(Months(stats_df)) > WindowMonths} :
           /\ file' = IF raised THEN file
                      ELSE [exists |-> TRUE, rows |-> to_csv(stats_df)]
           /\ last' = Outcome("update", raised, calls[t].batch, None)
    /\ calls' = [calls EXCEPT ![t] = Idle]
    /\ UNCHANGED <<now, alive, grid_size, anchor_points, stats_df, crime_data, nCalls,
                   interleaved, analyzer, raw_data>>

\* one store shared by the threads, each call of update_stats taking its steps
NextThreads ==
    \/ \E g \in GridSizes : (\A t \in Threads : calls[t].pc = "idle") /\ CrimeStatsDB(g)
    \/ \E t \in Threads : \E b \in ThreadBatches(now) : Begin(t, b)
    \/ \E t \in Threads : Filter(t)
    \/ \E t \in Threads : Extend(t)
    \/ \E t \in Threads : Overwrite(t)
    \/ \E t \in Threads : Normalize(t)
    \/ \E t \in Threads : Finish(t)

SpecThreads == Init /\ [][NextThreads]_vars

\* CrimeSpatialAnalyzer.__init__(data, grid_size)
CrimeSpatialAnalyzer(data, g) ==
    /\ \E points \in {initialize_anchor_points(data, g)} :
           analyzer' = [built |-> TRUE, raw_data |-> data, grid_size |-> g,
                        anchor_points |-> points,
                        anchor_scores |-> update_anchor_scores(points, data, now)]
    /\ last' = Outcome("analyzer", FALSE, <<g>>, None)
    /\ UNCHANGED <<now, storeVars, raw_data>>

GetScore(pt) ==
    /\ analyzer.built
    /\ last' = Outcome("get_score", FALSE, pt, [null |-> FALSE, score |-> get_score(analyzer, pt)])
    /\ UNCHANGED <<now, storeVars, analyzer, raw_data>>

GetScoresBatch(points) ==
    /\ analyzer.built
    /\ last' = Outcome("get_scores_batch", FALSE, points,
                       [null |-> FALSE, scores |-> get_scores_batch(analyzer, points)])
    /\ UNCHANGED <<now, storeVars, analyzer, raw_data>>

GetHighRiskAreas(threshold) ==
    /\ analyzer.built
    /\ last' = Outcome("get_high_risk_areas", FALSE, <<threshold>>,
                       [null |-> FALSE, rows |-> get_high_risk_areas(analyzer, threshold)])
    /\ UNCHANGED <<now, storeVars, analyzer, raw_data>>

NextAnalyzer ==
    \/ \E d \in AnalyzerData(now) : \E g \in GridSizes : CrimeSpatialAnalyzer(d, g)
    \/ \E pt \in ScorePoints : GetScore(pt)
    \/ \E points \in PointArrays : GetScoresBatch(points)
    \/ \E th \in Thresholds : GetHighRiskAreas(th)

SpecAnalyzer == Init /\ [][NextAnalyzer]_vars

\* CrimeAnalyzer(data).calculate_time_window_stats(window_size)
CalculateTimeWindowStats(window_size) ==
    /\ last' = Outcome("time_window_stats", FALSE, <<window_size>>,
                  [null |-> FALSE,
                   rows |-> calculate_time_window_stats(raw_data, window_size, NoDate, NoDate)])
    /\ UNCHANGED <<now, storeVars, analyzer, raw_data>>

\* CrimeVisualizer(CrimeAnalyzer(data)).calculate_monthly_rates(months)
CalculateMonthlyRates(months) ==
    /\ \E r \in {calculate_monthly_rates(raw_data, now, months)} :
           last' = Outcome("monthly_rates", r.raised, <<months>>,
                           [null |-> FALSE, rows |-> r.rows])
    /\ UNCHANGED <<now, storeVars, analyzer, raw_data>>

\* CrimeAnalyzer(data).calculate_moving_average(window_days, by_type)
CalculateMovingAverage(window_days, by_type) ==
    /\ \E r \in {calculate_moving_average(raw_data, window_days, by_type)} :
           last' = Outcome("moving_average", r.raised, <<window_days, by_type>>,
                           [null |-> FALSE, rows |-> r.rows])
    /\ UNCHANGED <<now, storeVars, analyzer, raw_data>>

InitRates ==
    /\ InitStore(NowDates, {NoFile})
    /\ raw_data \in CityData(now)

NextRates ==
    \/ \E w \in WindowSizes : CalculateTimeWindowStats(w)
    \/ \E m \in MonthsBack : CalculateMonthlyRates(m)
    \/ \E w \in WindowDays, by_type \in BOOLEAN : CalculateMovingAverage(w, by_type)

SpecRates == InitRates /\ [][NextRates]_vars

\* CrimeAnalyzer(data).get_hotspots(grid_size, min_date, max_date)
GetHotspots(g, min_date, max_date) ==
    /\ last' = Outcome("hotspots", FALSE, <<g, min_date, max_date>>,
                  [null |-> FALSE, rows |-> get_hotspots(raw_data, g, min_date, max_date)])
    /\ UNCHANGED <<now, storeVars, analyzer, raw_data>>

InitHotspots ==
    /\ InitStore(NowDates, {NoFile})
    /\ raw_data \in GeoData(now)

NextHotspots ==
    \E g \in CellSizes, r \in HotspotRanges(now) : GetHotspots(g, r[1], r[2])

SpecHotspots == InitHotspots /\ [][NextHotspots]_vars

\* ------------------------------------------------------------ properties
\* the latest observation month of the batch of the last update_stats call
BatchLatest == SetMax({crime_data[i].month : i \in DOMAIN crime_data})

\* the batch of the last update_stats call holds observations of one month only
SingleMonth(cd) == Cardinality({cd[i].month : i \in DOMAIN cd}) = 1

Points(df) == {<<df[i].latitude, df[i].longitude>> : i \in DOMAIN df}

\* C1: after any update_stats call the table holds at most 12 distinct months and
\* the month-count assertion closing update_stats does not fail.
C1_WindowInvariant ==
    last.op = "update" =>
        /\ Cardinality(Months(stats_df)) <= WindowMonths
        /\ ~last.raised

\* C2: the table is a complete rectangular matrix: every anchor has exactly one row
\* for each month present, no row belongs to a point that is no anchor, and the row
\* count is the number of anchors times the number of months of the table.
C2_Rectangular ==
    alive =>
        /\ \A p \in Range(anchor_points) : \A m \in Months(stats_df) :
              Cardinality({i \in DOMAIN stats_df :
                  /\ <<stats_df[i].latitude, stats_df[i].longitude>> = p
                  /\ stats_df[i].month = m}) = 1
        /\ Points(stats_df) = Range(anchor_points)
        /\ Len(stats_df) = Len(anchor_points) * Cardinality(Months(stats_df))

\* C2 witness: an update has completed on a mesh of several anchors and left window
\* months with observations and without
C2_Witness ==
    /\ last.op = "update"
    /\ ~last.raised
    /\ Len(anchor_points) > 1
    /\ \E i \in DOMAIN stats_df : stats_df[i].crime_count > 0
    /\ \E i \in DOMAIN stats_df : stats_df[i].crime_count = 0

\* C3: after update_stats with a batch whose latest month is U every row's month
\* lies in [U - 11 months, U]: rows outside that window have been evicted.
C3_Eviction ==
    last.op = "update" =>
        \A i \in DOMAIN stats_df :
            /\ stats_df[i].month >= ReplaceDay1(SubMonths(BatchLatest, WindowMonths - 1))
            /\ stats_df[i].month <= BatchLatest

\* C4: eviction scenario. A call of update_stats that is the first on a new store,
\* or that follows a completed call for the month before, each with a batch of one
\* month, completes and leaves at most 12 distinct months, none older than the
\* window of its month.
C4_EvictionScenario ==
    [][ ( /\ last'.op = "update"
          /\ SingleMonth(crime_data')
          /\ \/ last.op = "create"
             \/ /\ last.op = "update"
                /\ ~last.raised
                /\ SingleMonth(crime_data)
                /\ crime_data'[1].month = NextMonthStart(crime_data[1].month) )
        => ( /\ ~last'.raised
             /\ Cardinality(Months(stats_df')) <= WindowMonths
             /\ \A i \in DOMAIN stats_df' :
                   stats_df'[i].month >=
                       ReplaceDay1(SubMonths(crime_data'[1].month, WindowMonths - 1)) )
      ]_vars

\* C5: update_stats is idempotent and overwriting: a call with the batch of the call
\* before it (the same DataFrame, or the same records fetched again) leaves the
\* table exactly as that call left it.
C5_Idempotent ==
    [][ ( /\ last.op = "update"
          /\ last'.op = "update"
          /\ (last'.args = last.args \/ last'.args = crime_data) )
        => stats_df' = stats_df
      ]_vars

\* C5 witness: the batch has been passed twice in a row and has left weights
C5_Witness ==
    /\ last.op = "update"
    /\ last.args = crime_data
    /\ nCalls = 2
    /\ \E i \in DOMAIN stats_df : stats_df[i].crime_count > 0 /\ stats_df[i].risk_score > 0

\* the 12 consecutive month starts that end at the month of today
TrailingMonths(today) ==
    {ToOrdinal(<<((today[1] * 12) + (today[2] - 1) - k) \div 12,
                 (((today[1] * 12) + (today[2] - 1) - k) % 12) + 1, 1>>) :
        k \in 0..(WindowMonths - 1)}

IsZeroRow(r) ==
    /\ r.risk_score = 0 /\ r.crime_count = 0 /\ r.violent_count = 0
    /\ r.property_count = 0 /\ r.other_count = 0

\* C6: with no persisted table, constructing the store creates and persists exactly
\* one all-zero row for each of the grid_size*grid_size anchors and each of the 12
\* consecutive first-of-month dates ending at the current month, whatever the date.
C6_CreateEmpty ==
    last.op = "create" =>
        /\ ~last.raised
        /\ Len(anchor_points) = grid_size * grid_size
        /\ Cardinality(Range(anchor_points)) = grid_size * grid_size
        /\ Months(stats_df) = TrailingMonths(now)
        /\ Len(stats_df) = grid_size * grid_size * WindowMonths
        /\ \A p \in Range(anchor_points) : \A m \in TrailingMonths(now) :
              \E i \in DOMAIN stats_df :
                  /\ <<stats_df[i].latitude, stats_df[i].longitude>> = p
                  /\ stats_df[i].month = m
        /\ \A i \in DOMAIN stats_df : IsZeroRow(stats_df[i])
        /\ file.exists
        /\ Len(file.rows) = Len(stats_df)
        /\ \A i \in DOMAIN stats_df :
              /\ file.rows[i].month = FromOrdinal(stats_df[i].month)
              /\ ParseNum(file.rows[i].latitude) = stats_df[i].latitude
              /\ ParseNum(file.rows[i].longitude) = stats_df[i].longitude
              /\ ParseNum(file.rows[i].risk_score) = 0
              /\ ParseNum(file.rows[i].crime_count) = 0

\* C6 witness: a store created in March of a leap year, where the day 365 days
\* before the month start is the second of a month
C6_Witness ==
    /\ last.op = "create"
    /\ ~last.raised
    /\ grid_size = 2
    /\ now[2] = 3
    /\ IsLeap(now[1])
    /\ FromOrdinal(ToOrdinal(<<now[1], now[2], 1>>) - DaysBack)[3] = 2

\* C7: persistence round-trips. A store constructed after a completed initialization
\* or update_stats loads exactly the rows the saving instance held, every month a
\* first-of-month date, and its anchors are the distinct (latitude, longitude) pairs
\* of the persisted rows, whatever grid_size it was asked for.
C7_RoundTrip ==
    [][ ( /\ last.op \in {"create", "update"}
          /\ ~last.raised
          /\ last'.op = "load" )
        => ( /\ stats_df' = stats_df
             /\ \A i \in DOMAIN stats_df' : FromOrdinal(stats_df'[i].month)[3] = 1
             /\ Range(anchor_points') = Points(stats_df)
             /\ Len(anchor_points') = Cardinality(Points(stats_df)) )
      ]_vars

\* C7 witness: a table with weights and scores has been loaded by a store asked for
\* another grid_size than the table's
C7_Witness ==
    /\ last.op = "load"
    /\ grid_size * grid_size # Len(anchor_points)
    /\ \E i \in DOMAIN stats_df : stats_df[i].risk_score > 0
    /\ \E i \in DOMAIN stats_df : stats_df[i].crime_count > 0

\* the months of the batch of the last update_stats call
BatchMonths == {crime_data[i].month : i \in DOMAIN crime_data}

MonthCounts(m) == {stats_df[i].crime_count : i \in {j \in DOMAIN stats_df : stats_df[j].month = m}}

\* C8: every row's risk_score lies in [0,1]; after update_stats, in each month of
\* the batch whose anchors do not all have equal crime_count, the anchors with the
\* minimum crime_count have risk_score 0 and those with the maximum have 1.
C8_RiskBounds ==
    /\ \A i \in DOMAIN stats_df :
          stats_df[i].risk_score >= 0 /\ stats_df[i].risk_score <= RScale
    /\ last.op = "update" =>
          \A m \in BatchMonths :
              Cardinality(MonthCounts(m)) > 1 =>
                  \A i \in DOMAIN stats_df :
                      stats_df[i].month = m =>
                          /\ stats_df[i].crime_count = SetMin(MonthCounts(m))
                                => stats_df[i].risk_score = 0
                          /\ stats_df[i].crime_count = SetMax(MonthCounts(m))
                                => stats_df[i].risk_score = RScale

\* C8 witness: a month of the batch whose anchors have different, all positive,
\* weights has been normalised
C8_Witness ==
    /\ last.op = "update"
    /\ \E m \in BatchMonths :
          /\ Cardinality(MonthCounts(m)) > 1
          /\ SetMin(MonthCounts(m)) > 0

\* C9: get_location_stats returns None, without raising, exactly when no anchor lies
\* within Euclidean distance radius of (lat, lon).
C9_NoneIffNoAnchor ==
    last.op = "query" =>
        /\ ~last.raised
        /\ last.result.null <=>
              ~ \E i \in DOMAIN anchor_points :
                    Dist2(anchor_points[i], last.args[1], last.args[2])
                        <= last.args[3] * last.args[3]

\* C9 witness: a query whose only anchor in reach is at distance exactly radius has
\* returned a result, after an update
C9_Witness ==
    /\ last.op = "query"
    /\ crime_data # <<>>
    /\ ~last.result.null
    /\ \E i \in DOMAIN anchor_points :
          Dist2(anchor_points[i], last.args[1], last.args[2]) = last.args[3] * last.args[3]
    /\ ~ \E i \in DOMAIN anchor_points :
          Dist2(anchor_points[i], last.args[1], last.args[2]) < last.args[3] * last.args[3]

\* no update_stats call has been made: the table is as initialization left it
NoUpdateYet == crime_data = <<>>

ZeroResult(r) ==
    /\ ~r.null
    /\ r.current_risk = 0
    /\ r.recent_stats = [total |-> 0, violent |-> 0, property |-> 0, other |-> 0]

\* C10 as stated: on a freshly initialized, all-zero store get_location_stats(0, 0,
\* radius=0.01) returns a non-null result with current_risk 0.0 and zero recent_stats.
C10_Original ==
    (last.op = "query" /\ NoUpdateYet /\ last.args = <<0, 0, 1>>)
        => ZeroResult(last.result)

\* C10 as amended: on a freshly initialized, all-zero store get_location_stats(0, 0,
\* radius=0.01) returns None, no anchor of the mesh being within 0.01 of (0, 0); a
\* query with an anchor within its radius returns a non-null result with
\* current_risk 0.0 and zero recent_stats.
C10_FreshQuery ==
    (last.op = "query" /\ NoUpdateYet) =>
        /\ last.args = <<0, 0, 1>> => last.result.null
        /\ (\E i \in DOMAIN anchor_points :
                Dist2(anchor_points[i], last.args[1], last.args[2])
                    <= last.args[3] * last.args[3])
              => ZeroResult(last.result)

\* C10 witness: the query at (0, 0) with radius 0.01 has been answered on a new
\* store of several anchors
C10_Witness ==
    /\ last.op = "query"
    /\ NoUpdateYet
    /\ last.args = <<0, 0, 1>>
    /\ last.result.null
    /\ Len(anchor_points) > 1
    /\ \A i \in DOMAIN stats_df : IsZeroRow(stats_df[i])

\* the indices of the anchors within the radius of the last query
InReach ==
    {i \in DOMAIN anchor_points :
        Dist2(anchor_points[i], last.args[1], last.args[2]) <= last.args[3] * last.args[3]}

\* the risk scores the anchors in reach hold for month m
ReachScores(m) ==
    {stats_df[j].risk_score : j \in {i \in DOMAIN stats_df :
        /\ stats_df[i].month = m
        /\ \E k \in InReach : anchor_points[k] = <<stats_df[i].latitude, stats_df[i].longitude>>}}

\* the mean of field values over the last three entries of a trend, or over all
\* its entries when there are fewer
RecentMean(values) ==
    LET n == Len(values)
        from == IF n < 3 THEN 1 ELSE n - 2
    IN  SeqSum([k \in 1..(n - from + 1) |-> values[from + k - 1]]) \div (n - from + 1)

\* C11: a non-null get_location_stats result has one monthly_trend entry for each
\* distinct month of the store, in ascending month order; current_risk is the
\* weighted risk_score of the last, most recent, entry; recent_stats is the mean
\* over the last 3 entries, or over all entries when there are fewer than 3.
C11_TrendOrder ==
    (last.op = "query" /\ ~last.result.null) =>
        LET t == last.result.monthly_trend
        IN  /\ Len(t) = Cardinality(Months(stats_df))
            /\ {t[k].month : k \in DOMAIN t} = Months(stats_df)
            /\ \A k \in 1..(Len(t) - 1) : t[k].month < t[k + 1].month
            /\ t[Len(t)].month = SetMax(Months(stats_df))
            /\ last.result.current_risk = t[Len(t)].risk_score
            /\ last.result.current_risk >= SetMin(ReachScores(SetMax(Months(stats_df))))
            /\ last.result.current_risk <= SetMax(ReachScores(SetMax(Months(stats_df))))
            /\ last.result.recent_stats =
                  [total    |-> RecentMean([k \in DOMAIN t |-> t[k].crime_count]),
                   violent  |-> RecentMean([k \in DOMAIN t |-> t[k].violent_count]),
                   property |-> RecentMean([k \in DOMAIN t |-> t[k].property_count]),
                   other    |-> RecentMean([k \in DOMAIN t |-> t[k].other_count])]

\* C11 witness: a query with two anchors in reach has been answered from a table of
\* two months that holds the later month first
C11_Witness ==
    /\ last.op = "query"
    /\ ~last.result.null
    /\ Len(last.result.monthly_trend) = 2
    /\ Cardinality(InReach) = 2
    /\ stats_df[1].month > stats_df[2].month
    /\ last.result.current_risk > 0

\* C12: get_current_heatmap_data returns exactly one (latitude, longitude,
\* risk_score) row per anchor, and every row returned is a row of the greatest
\* month of the table.
C12_Heatmap ==
    last.op = "heatmap" =>
        LET h == last.result.rows
        IN  /\ ~last.raised
            /\ Len(h) = Len(anchor_points)
            /\ \A p \in Range(anchor_points) :
                  Cardinality({k \in DOMAIN h : <<h[k].latitude, h[k].longitude>> = p}) = 1
            /\ \A k \in DOMAIN h :
                  /\ h[k].index \in DOMAIN stats_df
                  /\ stats_df[h[k].index].month = SetMax(Months(stats_df))
                  /\ stats_df[h[k].index].latitude = h[k].latitude
                  /\ stats_df[h[k].index].longitude = h[k].longitude
                  /\ stats_df[h[k].index].risk_score = h[k].risk_score

\* C12 witness: the heatmap of a mesh of several anchors has been taken from a
\* table whose first rows are not of its latest month, with scores above zero
C12_Witness ==
    /\ last.op = "heatmap"
    /\ Len(anchor_points) > 1
    /\ stats_df[1].month < SetMax(Months(stats_df))
    /\ \E k \in DOMAIN last.result.rows : last.result.rows[k].risk_score > 0

C14_DropInvalid ==
    [][ last'.op = "update" =>
          LET valid == SelectSeq(last'.args, valid_coords)
          IN  /\ ~last'.raised
              /\ stats_df' = IF valid = <<>> THEN stats_df
                             ELSE update_stats(stats_df, anchor_points, valid).stats_df
      ]_vars

\* the table is a complete matrix of zero rows: every anchor with one row for each
\* month, all counts and scores zero
ZeroMatrix ==
    /\ stats_df # <<>>
    /\ \A i \in DOMAIN stats_df : IsZeroRow(stats_df[i])
    /\ \A p \in Points(stats_df) : \A m \in Months(stats_df) :
          Cardinality({i \in DOMAIN stats_df :
              /\ <<stats_df[i].latitude, stats_df[i].longitude>> = p
              /\ stats_df[i].month = m}) = 1

\* C15: when the persisted table fails to parse or is no complete anchor x month
\* matrix, the constructor discards it and builds a complete all-zero matrix.
C15_DiscardCorrupt ==
    last.op = "load" =>
        /\ ~last.raised
        /\ alive
        /\ ZeroMatrix

\* every anchor has exactly one row for each month of the table
OneRowPerPair ==
    \A p \in Range(anchor_points) : \A m \in Months(stats_df) :
        Cardinality({i \in DOMAIN stats_df :
            /\ <<stats_df[i].latitude, stats_df[i].longitude>> = p
            /\ stats_df[i].month = m}) = 1

\* C16: while the update_stats calls on a store are serialized, the table is in
\* every state a complete anchor x month matrix with exactly one row per pair;
\* with two calls whose steps interleave a state without that property is reached.
C16_SerializedComplete ==
    (alive /\ ~interleaved) => OneRowPerPair

\* C16 witness: two calls have interleaved and both have returned, and the table
\* holds more than one row for an anchor and a month
C16_Witness ==
    /\ interleaved
    /\ \A t \in Threads : calls[t].pc = "idle"
    /\ Len(anchor_points) > 1
    /\ ~OneRowPerPair

\* C17: get_scores_batch returns at each index the value get_score returns for
\* that point alone, over the same anchors and anchor scores.
C17_BatchEqualsSingle ==
    last.op = "get_scores_batch" =>
        /\ Len(last.result.scores) = Len(last.args)
        /\ \A i \in DOMAIN last.args :
              last.result.scores[i] = get_score(analyzer, last.args[i])

\* C17 witness: a batch of two different points has been scored over anchors with
\* different scores, and the two scores differ
C17_Witness ==
    /\ last.op = "get_scores_batch"
    /\ Len(last.args) = 2
    /\ last.args[1] # last.args[2]
    /\ ~last.result.scores[1].nan
    /\ last.result.scores[1].v > 0
    /\ last.result.scores[1] # last.result.scores[2]

\* C18: constructing a CrimeSpatialAnalyzer over zero observations does not raise
\* and gives every anchor the score 0 exactly, no NaN.
C18_ZeroObservations ==
    (analyzer.built /\ analyzer.raw_data = <<>>) =>
        /\ ~last.raised
        /\ \A k \in DOMAIN analyzer.anchor_scores : analyzer.anchor_scores[k] = Num(0)

\* the summed weights of the anchors of the analyzer
AnchorSums ==
    {AnchorSum(analyzer.anchor_points[k], analyzer.raw_data, now) :
        k \in DOMAIN analyzer.anchor_points}

\* C19: when all anchors have the same summed weight the anchor scores are one
\* finite constant, and neither get_score nor get_high_risk_areas produces NaN.
C19_NoVariance ==
    (analyzer.built /\ analyzer.raw_data # <<>> /\ Cardinality(AnchorSums) = 1) =>
        /\ \A k \in DOMAIN analyzer.anchor_scores :
              /\ ~analyzer.anchor_scores[k].nan
              /\ analyzer.anchor_scores[k] = analyzer.anchor_scores[1]
        /\ last.op = "get_score" => ~last.result.score.nan
        /\ last.op = "get_high_risk_areas" =>
              \A j \in DOMAIN last.result.rows : ~last.result.rows[j].risk_score.nan

\* an observation of a city without reference data lies in the months the monthly
\* rates cover
UnknownCityInRange ==
    \E i \in DOMAIN raw_data :
        /\ raw_data[i].city \notin DOMAIN CITY_POPULATIONS
        /\ to_datetime(raw_data[i].date_of_occurrence) > ToOrdinal(now) - (12 * MonthDays)
        /\ to_datetime(raw_data[i].date_of_occurrence) <= ToOrdinal(now)

\* C20: for a group whose city has no entry in the population and area tables the
\* per-capita and per-area rates are 0 and no rate computation raises, in
\* calculate_time_window_stats and in the monthly rates built on it.
C20_UnknownRegion ==
    (UnknownCityInRange /\ last.op \in {"time_window_stats", "monthly_rates"}) =>
        /\ ~last.raised
        /\ \E k \in DOMAIN last.result.rows :
              last.result.rows[k].city \notin DOMAIN CITY_POPULATIONS
        /\ \A k \in DOMAIN last.result.rows :
              last.result.rows[k].city \notin DOMAIN CITY_POPULATIONS =>
                  /\ last.result.rows[k].rate_per_100k = 0
                  /\ last.result.rows[k].rate_per_sqmile = 0

\* the first daily count of the series a row of the moving averages belongs to
FirstCount(row, by_type) ==
    LET daily == DailyCounts(raw_data, by_type)
        series == SelectSeq(daily, LAMBDA r :
                     r.city = row.city /\ (by_type => r.crime_type = row.crime_type))
    IN  series[1]

\* C21: calculate_moving_average(window_days) gives no NaN: a point with fewer than
\* window_days samples carries the average of the samples available so far, the
\* warm-up convention of the moving average of the monthly rates (RollingMean), so
\* the first point of every series is its own daily count.
C21_WarmUp ==
    (last.op = "moving_average" /\ ~last.raised) =>
        \A k \in DOMAIN last.result.rows :
            LET row == last.result.rows[k]
                first == FirstCount(row, last.args[2])
            IN  /\ ~row.moving_average.nan
                /\ row.date = first.date =>
                       row.moving_average = Num(first.count * RateScale)

\* the step is a call of update_stats
UpdateStep == nCalls' = nCalls + 1 /\ last'.op = "update"

\* the rows of month m of table df
MonthRows(df, m) == {i \in DOMAIN df : df[i].month = m}

\* C22: for a month of the batch in which every anchor ends with the same
\* crime_count, update_stats does not raise and leaves the risk_score of that
\* month's rows at the value they had before the call (a number, never NaN).
C22_EqualCounts ==
    [][ UpdateStep =>
          \A m \in {crime_data'[i].month : i \in DOMAIN crime_data'} :
              (/\ MonthRows(stats_df', m) # {}
               /\ Cardinality({stats_df'[i].crime_count : i \in MonthRows(stats_df', m)}) = 1)
              => /\ ~last'.raised
                 /\ \A i \in MonthRows(stats_df', m), j \in MonthRows(stats_df, m) :
                       (/\ stats_df'[i].latitude = stats_df[j].latitude
                        /\ stats_df'[i].longitude = stats_df[j].longitude)
                       => stats_df'[i].risk_score = stats_df[j].risk_score
      ]_vars

\* C23: update_stats leaves unchanged every row whose month lies inside the new
\* window, was present before the call and has no observation in the batch; the
\* zeroed rows it creates are of window months that were not present before.
C23_KeepUnobserved ==
    [][ UpdateStep =>
          LET observed == {crime_data'[i].month : i \in DOMAIN crime_data'}
              hi == SetMax(observed)
              lo == ReplaceDay1(SubMonths(hi, WindowMonths - 1))
          IN  /\ \A j \in DOMAIN stats_df :
                    (/\ stats_df[j].month >= lo
                     /\ stats_df[j].month <= hi
                     /\ stats_df[j].month \notin observed)
                    => \E i \in DOMAIN stats_df' : stats_df'[i] = stats_df[j]
              /\ \A i \in DOMAIN stats_df' :
                    (/\ IsZeroRow(stats_df'[i])
                     /\ stats_df'[i].month \notin observed
                     /\ stats_df'[i].month \in Months(stats_df))
                    => \E j \in DOMAIN stats_df : stats_df[j] = stats_df'[i]
      ]_vars

C25_CellContains ==
    last.op = "hotspots" =>
        LET g == last.args[1]
            data == HotspotData(raw_data, last.args[2], last.args[3])
        IN  \A i \in DOMAIN data :
                LET cell == GridCell(data[i], g)
                IN  /\ cell.grid_lat <= data[i].latitude
                    /\ data[i].latitude < cell.grid_lat + g
                    /\ cell.grid_lon <= data[i].longitude
                    /\ data[i].longitude < cell.grid_lon + g
                    /\ \E k \in DOMAIN last.result.rows :
                          /\ last.result.rows[k].city = data[i].city
                          /\ last.result.rows[k].center_lat = (2 * cell.grid_lat) + g
                          /\ last.result.rows[k].center_lon = (2 * cell.grid_lon) + g

\* the step is a call of update_database
UpdateDatabaseStep == nCalls' = nCalls + 1 /\ last'.op = "update_database"

\* the latest month of the store is the calendar month of today
LatestIsThisMonth ==
    /\ stats_df # <<>>
    /\ FromOrdinal(SetMax(Months(stats_df)))[1] = now[1]
    /\ FromOrdinal(SetMax(Months(stats_df)))[2] = now[2]

\* C26: update_database(force=False) skips the fetch only when the store's latest
\* month is the current calendar month, same year and same month; when the latest
\* month is any other month, or force=True, it fetches and, if the batch is not
\* empty, applies update_stats.
C26_SkipOnlyIfCurrent ==
    [][ UpdateDatabaseStep =>
          /\ last'.result.skipped => (~last'.args[1] /\ LatestIsThisMonth)
          /\ (last'.args[1] \/ ~LatestIsThisMonth) =>
                /\ ~last'.result.skipped
                /\ last'.result.updated = (last'.args[2] # <<>>)
                /\ last'.args[2] # <<>> =>
                      \E u \in {update_stats(stats_df, anchor_points, last'.args[2])} :
                          stats_df' = u.stats_df
      ]_vars

\* C27: when update_stats raises inside update_database the exception is swallowed
\* and the store continues with the data it had: the in-memory table and the
\* persisted file are those of before the update_database call.
C27_SwallowedKeepsData ==
    [][ (UpdateDatabaseStep /\ last'.result.swallowed) =>
          /\ ~last'.raised
          /\ stats_df' = stats_df
          /\ file' = file
      ]_vars

\* C28: update_stats does not modify the caller's batch: after the call the batch
\* passed in has the same records, with the same fields and values, as before.
C28_BatchUntouched ==
    last.op = "update" => crime_data = last.args

\* C29: in every state of the store every row satisfies
\* crime_count = violent_count + property_count + other_count.
C29_CategorySum ==
    \A i \in DOMAIN stats_df :
        stats_df[i].crime_count =
            stats_df[i].violent_count + stats_df[i].property_count + stats_df[i].other_count

\* C29 witness: an update has written a row with weight in two categories, and
\* one with weight in the third
C29_Witness ==
    /\ last.op = "update"
    /\ \E i \in DOMAIN stats_df :
          stats_df[i].violent_count > 0 /\ stats_df[i].property_count > 0
    /\ \E i \in DOMAIN stats_df : stats_df[i].other_count > 0

\* C30: with no persisted file, create_crime_markers, when the fetch returns a
\* batch that is not empty, returns the heatmap rows of the fresh matrix updated
\* with that batch, not the all-zero rows of the fresh matrix.
C30_MarkersFromBatch ==
    [][ ( /\ nCalls' = nCalls + 1
          /\ last'.op = "create_crime_markers"
          /\ ~file.exists
          /\ last'.args[2] # <<>> )
        => /\ ~last'.raised
           /\ \E db \in {CreateEmptyDb(last'.args[1], now)} :
                 \E u \in {update_stats(db.stats_df, db.anchor_points, last'.args[2])} :
                    last'.result.rows =
                        ToRecords(get_current_heatmap_data(u.stats_df).rows)
      ]_vars

====
